---------------------------- MODULE Spec2Model ----------------------------
(***************************************************************************)
(* A model of script.js of the animated login page: the field validators,  *)
(* validateField / validateForm, the two rate limiters, the simulated form *)
(* submission, the pseudo CSRF token, the toasts and the preferences kept  *)
(* in localStorage.                                                        *)
(*                                                                         *)
(* Strings are sequences of one-character strings.  The page's clock       *)
(* (Date.now(), in ms) is the variable now; it never runs backwards.       *)
(***************************************************************************)
EXTENDS Integers, Sequences, FiniteSets, TLC

VARIABLES
    value,          \* input.value of every validated input
    cls,            \* the classes "error"/"success" of every input's .input-group
    errText,        \* textContent of every input group's .error-message
    strengthTimer,  \* the pending timeout of debouncedPasswordStrength, with its argument
    confirmTimer,   \* the pending timeout of the debounced confirm-password check
    meter,          \* the password strength indicator: visible, and its strength class
    now,            \* the clock Date.now() reads
    lastCall,       \* per rate limiter: the closure variable lastCall
    isLimited,      \* per rate limiter: the closure variable isLimited
    token,          \* csrfManager.token; tokens are numbered as they are generated
    pending,        \* the submissions waiting in simulateFormSubmission
    button,         \* per form: the submit button's class "loading" and its disabled
    last,           \* per form: the run of the submit handler that returned last
    toasts,         \* the children of toastContainer, in document order
    container,      \* whether container has the class "active" (sign-up panel shown)
    switchTimers,   \* the pending timeouts that switch back to the sign-in panel
    rememberMe,     \* whether the rememberMe checkbox is checked
    storage,        \* localStorage: per key, the value stored (no value: the empty set)
    theme,          \* the data-theme attribute of the document element
    ret             \* what the operation applied last returned

fieldVars == <<value, cls, errText, strengthTimer, confirmTimer, meter>>
limiterVars == <<lastCall, isLimited>>
pageVars == <<token, pending, button, last, toasts, container, switchTimers,
              rememberMe, storage, theme>>
vars == <<value, cls, errText, strengthTimer, confirmTimer, meter,
          now, lastCall, isLimited, token, pending, button, last, toasts,
          container, switchTimers, rememberMe, storage, theme, ret>>

---------------------------------------------------------------------------
(* Bounds of the model *)

\* the longest name or username probed; emails are probed to MaxLen + 1
\* characters and passwords to MaxLen + 3
MaxLen == 4

---------------------------------------------------------------------------
(* Strings *)

Whitespace == {" ", "\t"}
Lower == {"a", "b", "c", "l", "o", "s", "x"}
Upper == {"A", "B"}
Digit == {"1", "9"}
\* the class [a-zA-Z0-9_]
WordChar == Lower \cup Upper \cup Digit \cup {"_"}

RECURSIVE TrimStart(_)
\* the string without its leading whitespace
TrimStart(s) ==
    IF s = <<>> THEN <<>>
    ELSE IF Head(s) \in Whitespace THEN TrimStart(Tail(s)) ELSE s

RECURSIVE TrimEnd(_)
\* the string without its trailing whitespace
TrimEnd(s) ==
    IF s = <<>> THEN <<>>
    ELSE IF s[Len(s)] \in Whitespace THEN TrimEnd(SubSeq(s, 1, Len(s) - 1)) ELSE s

\* String.prototype.trim
Trim(s) == TrimEnd(TrimStart(s))

\* /^[a-zA-Z0-9_]+$/.test(s): one or more characters, all of the class
UsernameRegexTest(s) == Len(s) >= 1 /\ \A i \in 1..Len(s) : s[i] \in WordChar

\* [^\s@]+ matches s[a..b]: not empty, no whitespace, no "@"
NoSpaceNoAt(s, a, b) == a <= b /\ \A i \in a..b : s[i] \notin Whitespace \cup {"@"}

\* /^[^\s@]+@[^\s@]+\.[^\s@]+$/.test(s)
EmailRegexTest(s) ==
    \E i \in 1..Len(s) : \E j \in 1..Len(s) :
        /\ s[i] = "@"
        /\ s[j] = "."
        /\ NoSpaceNoAt(s, 1, i - 1)
        /\ NoSpaceNoAt(s, i + 1, j - 1)
        /\ NoSpaceNoAt(s, j + 1, Len(s))

---------------------------------------------------------------------------
(* The form fields *)

Forms == {"signIn", "signUp"}

\* the field list of the sign-in submit handler
SignInFields ==
    << [id |-> "signInEmail", validator |-> "email"],
       [id |-> "signInPassword", validator |-> "password"] >>

\* the field list of the sign-up submit handler
SignUpFields ==
    << [id |-> "signUpName", validator |-> "name"],
       [id |-> "signUpUsername", validator |-> "username"],
       [id |-> "signUpEmail", validator |-> "email"],
       [id |-> "signUpPassword", validator |-> "password"],
       [id |-> "signUpConfirmPassword", validator |-> "confirmPassword"] >>

FormFields(form) == IF form = "signIn" THEN SignInFields ELSE SignUpFields

\* the inputs the page validates, each in an .input-group of its own
Fields ==
    {SignInFields[i].id : i \in 1..Len(SignInFields)}
        \cup {SignUpFields[i].id : i \in 1..Len(SignUpFields)}

\* id.toLowerCase().includes(word), for the ids of the page's inputs
IdIncludes(id, word) ==
    CASE word = "confirmpassword" -> id = "signUpConfirmPassword"
      [] word = "username" -> id = "signUpUsername"
      [] word = "name" -> id \in {"signUpName", "signUpUsername"}
      [] word = "email" -> id \in {"signInEmail", "signUpEmail"}
      [] word = "password" ->
            id \in {"signInPassword", "signUpPassword", "signUpConfirmPassword"}
      [] OTHER -> FALSE

\* the validator the blur listener picks from the input's id ("" when none)
BlurValidatorKey(id) ==
    IF IdIncludes(id, "confirmpassword") THEN "confirmPassword"
    ELSE IF IdIncludes(id, "name") /\ ~IdIncludes(id, "username") THEN "name"
    ELSE IF IdIncludes(id, "username") THEN "username"
    ELSE IF IdIncludes(id, "email") THEN "email"
    ELSE IF IdIncludes(id, "password") THEN "password"
    ELSE ""

---------------------------------------------------------------------------
(* The validators: each returns its error message, "" when the value passes *)

ValidateName(v) ==
    IF Trim(v) = <<>> THEN "Name is required"
    ELSE IF Len(Trim(v)) < 2 THEN "Name must be at least 2 characters"
    ELSE ""

\* a variant that tests the pattern on the trimmed value
ValidateUsernameTrimmed(v) ==
    IF Trim(v) = <<>> THEN "Username is required"
    ELSE IF Len(Trim(v)) < 3 THEN "Username must be at least 3 characters"
    ELSE IF ~UsernameRegexTest(Trim(v)) THEN "Only letters, numbers, and underscores"
    ELSE ""

ValidateUsername(v) ==
    IF Trim(v) = <<>> THEN "Username is required"
    ELSE IF Len(Trim(v)) < 3 THEN "Username must be at least 3 characters"
    ELSE IF ~UsernameRegexTest(v) THEN "Only letters, numbers, and underscores"
    ELSE ""

ValidateEmail(v) ==
    IF Trim(v) = <<>> THEN "Email is required"
    ELSE IF ~EmailRegexTest(v) THEN "Please enter a valid email"
    ELSE ""

ValidatePassword(v) ==
    IF v = <<>> THEN "Password is required"
    ELSE IF Len(v) < 6 THEN "Password must be at least 6 characters"
    ELSE ""

\* a variant that compares with the value signUpPassword held when the
\* script loaded (empty) instead of reading the input when the rule runs
ValidateConfirmPasswordSnapshot(v, password) ==
    IF v = <<>> THEN "Please confirm your password"
    ELSE IF v # <<>> THEN "Passwords do not match"
    ELSE ""

\* password is the value the signUpPassword input holds when the rule runs
ValidateConfirmPassword(v, password) ==
    IF v = <<>> THEN "Please confirm your password"
    ELSE IF v # password THEN "Passwords do not match"
    ELSE ""

\* validators[key](v), with the page's inputs holding vals
Validators(key, v, vals) ==
    CASE key = "name" -> ValidateName(v)
      [] key = "username" -> ValidateUsername(v)
      [] key = "email" -> ValidateEmail(v)
      [] key = "password" -> ValidatePassword(v)
      [] key = "confirmPassword" -> ValidateConfirmPassword(v, vals["signUpPassword"])

---------------------------------------------------------------------------
(* validateField and validateForm *)

\* the group's classes after validateField found error (or "") for value v
MarkedClasses(old, error, v) ==
    IF error # "" THEN (old \ {"success"}) \cup {"error"}
    ELSE IF Trim(v) # <<>> THEN (old \ {"error"}) \cup {"success"}
    ELSE old \ {"error", "success"}

\* validateField(input, key) on the page state ui = [cls, errText] with the
\* inputs holding vals: the page state after it, and what it returns
ValidateField(ui, vals, id, key) ==
    LET error == Validators(key, vals[id], vals) IN
    [cls |-> [ui.cls EXCEPT ![id] = MarkedClasses(@, error, vals[id])],
     errText |-> [ui.errText EXCEPT ![id] = error],
     ok |-> error = ""]

RECURSIVE ValidateFormFromShortCircuit(_, _, _, _)
\* a variant that stops at the first field that fails
ValidateFormFromShortCircuit(acc, vals, fields, i) ==
    IF i > Len(fields) \/ ~acc.ok THEN acc
    ELSE LET r == ValidateField(acc, vals, fields[i].id, fields[i].validator) IN
         ValidateFormFromShortCircuit(
             [cls |-> r.cls, errText |-> r.errText, ok |-> acc.ok /\ r.ok],
             vals, fields, i + 1)

RECURSIVE ValidateFormFrom(_, _, _, _)
\* the forEach of validateForm from the i-th field on; acc carries the page
\* state and isValid
ValidateFormFrom(acc, vals, fields, i) ==
    IF i > Len(fields) THEN acc
    ELSE LET r == ValidateField(acc, vals, fields[i].id, fields[i].validator) IN
         ValidateFormFrom(
             [cls |-> r.cls, errText |-> r.errText, ok |-> acc.ok /\ r.ok],
             vals, fields, i + 1)

\* validateForm(form, fields): the page state after it, and what it returns
ValidateForm(ui, vals, fields) ==
    ValidateFormFrom([cls |-> ui.cls, errText |-> ui.errText, ok |-> TRUE],
                     vals, fields, 1)

\* the page state validateField and validateForm work on
Ui == [cls |-> cls, errText |-> errText]

---------------------------------------------------------------------------
(* The password strength indicator *)

HasChar(s, class) == \E i \in 1..Len(s) : s[i] \in class
B2N(b) == IF b THEN 1 ELSE 0

StrengthScore(password) ==
    B2N(Len(password) >= 8) + B2N(Len(password) >= 12)
        + B2N(HasChar(password, Lower) /\ HasChar(password, Upper))
        + B2N(HasChar(password, Digit))
        + B2N(\E i \in 1..Len(password) :
                  password[i] \notin Lower \cup Upper \cup Digit)

CheckPasswordStrength(password) ==
    IF StrengthScore(password) <= 2 THEN "weak"
    ELSE IF StrengthScore(password) <= 4 THEN "medium"
    ELSE "strong"

\* the indicator after updatePasswordStrength(password)
UpdatePasswordStrength(m, password) ==
    IF Len(password) = 0 THEN [m EXCEPT !.visible = FALSE]
    ELSE [visible |-> TRUE, strength |-> CheckPasswordStrength(password)]

---------------------------------------------------------------------------
(* Timing constants *)

StrengthDebounceMs == 150
ConfirmDebounceMs == 300

\* a variant that waits half as long
DebouncedHalfWait(t, wait, args) == {[due |-> t + wait \div 2, args |-> args]}

\* a call of a debounced function at time t: the pending timeout is cleared
\* and a new one set, wait ms from t, holding the call's arguments
Debounced(t, wait, args) == {[due |-> t + wait, args |-> args]}

---------------------------------------------------------------------------
(* Field events *)

\* the values a user types into a field
Typed(id) ==
    CASE id = "signUpPassword" -> {<<>>, <<"s", "e", "c", "r", "e", "t">>}
      [] id = "signUpConfirmPassword" ->
            {<<>>, <<"s", "e", "c", "r", "e", "t">>, <<"s", "e", "c", "r", "e", "T">>}
      [] OTHER -> {}

\* the "input" listeners of a field whose value the user has made v: the
\* clear-error listener of every input, the debounced strength check of
\* signUpPassword and the debounced match check of signUpConfirmPassword
Input(id, v) ==
    /\ value' = [value EXCEPT ![id] = v]
    /\ cls' = [cls EXCEPT ![id] = @ \ {"error"}]
    /\ errText' = [errText EXCEPT ![id] = IF "error" \in cls[id] THEN "" ELSE @]
    /\ strengthTimer' =
           IF id = "signUpPassword" THEN Debounced(now, StrengthDebounceMs, v)
           ELSE strengthTimer
    /\ confirmTimer' =
           IF id = "signUpConfirmPassword"
           THEN Debounced(now, ConfirmDebounceMs, <<>>)
           ELSE confirmTimer
    /\ UNCHANGED meter

\* the "blur" listener of a field
Blur(id) ==
    LET key == BlurValidatorKey(id)
        r == ValidateField(Ui, value, id, key)
    IN IF key # ""
       THEN /\ cls' = r.cls
            /\ errText' = r.errText
            /\ ret' = [op |-> "validateField", arg |-> id, result |-> r.ok,
                       was |-> cls[id]]
            /\ UNCHANGED <<value, strengthTimer, confirmTimer, meter>>
       ELSE UNCHANGED <<fieldVars, ret>>

\* the timeout of debouncedPasswordStrength runs its callback
StrengthCheck(t) ==
    /\ t \in strengthTimer
    /\ strengthTimer' = {}
    /\ meter' = UpdatePasswordStrength(meter, t.args)
    /\ UNCHANGED <<value, cls, errText, confirmTimer>>

\* the timeout of the debounced confirm-password check runs its callback
ConfirmCheck(t) ==
    /\ t \in confirmTimer
    /\ confirmTimer' = {}
    /\ IF /\ value["signUpConfirmPassword"] # <<>>
          /\ value["signUpPassword"] # <<>>
          /\ value["signUpConfirmPassword"] # value["signUpPassword"]
       THEN /\ cls' = [cls EXCEPT !["signUpConfirmPassword"] = @ \cup {"error"}]
            /\ errText' = [errText EXCEPT
                              !["signUpConfirmPassword"] = "Passwords do not match"]
       ELSE UNCHANGED <<cls, errText>>
    /\ UNCHANGED <<value, strengthTimer, meter>>

---------------------------------------------------------------------------
(* The rate limiters *)

IntervalMs == 2000

RateLimiters == {"signInRateLimiter", "signUpRateLimiter"}

\* a variant in which both handlers ask the same limiter
RateLimiterShared(form) == "signInRateLimiter"

\* the limiter a form's submit handler asks
RateLimiterOf(form) ==
    IF form = "signIn" THEN "signInRateLimiter" ELSE "signUpRateLimiter"

\* a variant in which a rejected attempt restarts the cooldown
CanProceedRestarting(lc, t) ==
    IF t - lc >= IntervalMs
    THEN [lastCall |-> t, isLimited |-> FALSE, result |-> TRUE]
    ELSE [lastCall |-> t, isLimited |-> TRUE, result |-> FALSE]

\* a variant that never rejects
CanProceedAlways(lc, t) == [lastCall |-> t, isLimited |-> FALSE, result |-> TRUE]

\* a variant whose cooldown is shorter than a submission takes
CanProceedShortCooldown(lc, t) ==
    IF t - lc >= 1000
    THEN [lastCall |-> t, isLimited |-> FALSE, result |-> TRUE]
    ELSE [lastCall |-> lc, isLimited |-> TRUE, result |-> FALSE]

\* a variant that still rejects when exactly the interval has elapsed
CanProceedStrict(lc, t) ==
    IF t - lc > IntervalMs
    THEN [lastCall |-> t, isLimited |-> FALSE, result |-> TRUE]
    ELSE [lastCall |-> lc, isLimited |-> TRUE, result |-> FALSE]

\* canProceed() of a limiter holding lastCall lc, Date.now() reading t: the
\* limiter's variables after it, and what it returns
CanProceed(lc, t) ==
    IF t - lc >= IntervalMs
    THEN [lastCall |-> t, isLimited |-> FALSE, result |-> TRUE]
    ELSE [lastCall |-> lc, isLimited |-> TRUE, result |-> FALSE]

Max(a, b) == IF a >= b THEN a ELSE b

\* getRemainingTime() of a limiter holding lastCall lc, Date.now() reading t
GetRemainingTime(lc, t) == Max(0, IntervalMs - (t - lc))

\* Math.ceil(ms / 1000) for ms >= 0
CeilSeconds(ms) == (ms + 999) \div 1000

---------------------------------------------------------------------------
(* The CSRF token manager *)

\* generateToken(): 32 random bytes in hex, taken as a value never generated
\* before; the n-th token generated is written n, and no token (null) 0
GenerateToken(tok) == tok + 1

\* a variant that generates a token at every call
GetTokenFresh(tok) == GenerateToken(tok)

\* getToken(): the token held, generated first if there is none
GetToken(tok) == IF tok = 0 THEN GenerateToken(tok) ELSE tok

---------------------------------------------------------------------------
(* Toasts *)

ToastVisibleMs == 3000
ToastExitMs == 300

\* a variant that shows one toast at a time
ShowToastReplacing(ts, message, type, t) ==
    <<[type |-> type, message |-> message, hide |-> FALSE,
       due |-> t + ToastVisibleMs, shown |-> t]>>

\* toastContainer after showToast(message, type) at time t; shown records
\* the time of the call
ShowToast(ts, message, type, t) ==
    Append(ts, [type |-> type, message |-> message, hide |-> FALSE,
                due |-> t + ToastVisibleMs, shown |-> t])

WaitMessage(remaining) ==
    "Please wait " \o ToString(remaining) \o "s before trying again"

\* the sequence without its i-th element
RemoveAt(seq, i) == SubSeq(seq, 1, i - 1) \o SubSeq(seq, i + 1, Len(seq))

---------------------------------------------------------------------------
(* Form submission *)

SubmissionLatencyMs == 1500
SwitchDelayMs == 1000

\* the largest number of ms the clock advances between two reads of
\* Date.now() in one run of a handler
MaxSkew == 1

\* the user stops acting Horizon ms after the page loaded
Horizon == 2500

\* the user waits while MaxToasts toasts are shown or bound to be shown
MaxToasts == 3

SuccessMessage(form) ==
    IF form = "signIn" THEN "Welcome back! Signing you in..."
    ELSE "Account created successfully!"

\* the button as simulateFormSubmission sets it
Busy == [loading |-> TRUE, disabled |-> TRUE]

\* a variant that removes the class and leaves the button disabled
IdleStillDisabled == [loading |-> FALSE, disabled |-> TRUE]

\* the button as the timeout of simulateFormSubmission leaves it
Idle == [loading |-> FALSE, disabled |-> FALSE]

\* the steps of a submit handler up to its await, in the order it takes them
StepsToAwait == <<"rateLimit", "validate", "attachToken", "busyEnter", "wait">>

\* a variant that notifies before it refreshes the token
StepsAfterWaitNotifyFirst(form) ==
    <<"busyExit", "resolve", "notify", "refreshToken">>
        \o (IF form = "signIn" THEN <<"rememberMe">> ELSE <<>>)
        \o (IF form = "signUp" THEN <<"switchTimer">> ELSE <<>>)

\* the steps from the timeout of simulateFormSubmission on
StepsAfterWait(form) ==
    <<"busyExit", "resolve", "refreshToken">>
        \o (IF form = "signIn" THEN <<"rememberMe">> ELSE <<>>)
        \o <<"notify">>
        \o (IF form = "signUp" THEN <<"switchTimer">> ELSE <<>>)

---------------------------------------------------------------------------
(* The page after script.js has run on load *)

\* ret when no operation has been applied since the page last changed; was
\* holds the classes validateField found on the input's group
NoRet == [op |-> "none", arg |-> "", result |-> FALSE, was |-> {}]

InitFieldsEmpty ==
    /\ value = [id \in Fields |-> <<>>]
    /\ cls = [id \in Fields |-> {}]
    /\ errText = [id \in Fields |-> ""]
    /\ strengthTimer = {}
    /\ confirmTimer = {}
    /\ meter = [visible |-> FALSE, strength |-> ""]

\* Date.now() when the page loads: far more than a cooldown after the epoch
LoadTime == 5000

InitLimiters ==
    /\ lastCall = [l \in RateLimiters |-> 0]
    /\ isLimited = [l \in RateLimiters |-> FALSE]

NoRun == [outcome |-> "none", steps |-> <<>>, csrf |-> 0, resolved |-> FALSE]

\* csrfManager.generateToken() has run once, initTheme() has found no theme
\* stored and loadRememberMe() no rememberMe
InitPage ==
    /\ token = GenerateToken(0)
    /\ pending = {}
    /\ button = [f \in Forms |-> [loading |-> FALSE, disabled |-> FALSE]]
    /\ last = [f \in Forms |-> NoRun]
    /\ toasts = <<>>
    /\ container = FALSE
    /\ switchTimers = {}
    /\ rememberMe = FALSE
    /\ storage = [k \in {"theme", "rememberMe"} |-> {}]
    /\ theme = "light"

---------------------------------------------------------------------------
(* SpecFields: the sign-up form, its name, username and email typed in     *)
(* before; the user goes on typing into the two password inputs and        *)
(* leaving fields, and validateForm is applied to the form.  A debounce    *)
(* timeout may run after any number of further events.                     *)

SignUpIds == {SignUpFields[i].id : i \in 1..Len(SignUpFields)}

InitFields ==
    /\ \E name \in {<<"A">>, <<"A", "l">>} :
           value = [id \in Fields |->
                       CASE id = "signUpName" -> name
                         [] id = "signUpUsername" -> <<"a", "l", "_", "9">>
                         [] id = "signUpEmail" -> <<"a", "@", "x", ".", "c">>
                         [] OTHER -> <<>>]
    /\ cls = [id \in Fields |-> {}]
    /\ errText = [id \in Fields |-> ""]
    /\ strengthTimer = {}
    /\ confirmTimer = {}
    /\ meter = [visible |-> FALSE, strength |-> ""]
    /\ InitLimiters
    /\ InitPage
    /\ now = LoadTime
    /\ ret = NoRet

InputEvent ==
    \E id \in Fields : \E v \in Typed(id) :
        /\ v # value[id]
        /\ Input(id, v)
        /\ ret' = NoRet
        /\ UNCHANGED <<now, limiterVars, pageVars>>

BlurEvent ==
    \E id \in SignUpIds : Blur(id) /\ UNCHANGED <<now, limiterVars, pageVars>>

StrengthTimeoutAnyTime ==
    \E t \in strengthTimer : StrengthCheck(t) /\ UNCHANGED <<now, limiterVars, pageVars, ret>>

ConfirmTimeoutAnyTime ==
    \E t \in confirmTimer :
        ConfirmCheck(t) /\ ret' = NoRet /\ UNCHANGED <<now, limiterVars, pageVars>>

\* validateForm applied to the sign-up form's field list
ValidateFormCall ==
    LET r == ValidateForm(Ui, value, SignUpFields) IN
    /\ cls' = r.cls
    /\ errText' = r.errText
    /\ ret' = [op |-> "validateForm", arg |-> "signUp", result |-> r.ok, was |-> {}]
    /\ UNCHANGED <<value, strengthTimer, confirmTimer, meter, now, limiterVars, pageVars>>

NextFields ==
    \/ InputEvent
    \/ BlurEvent
    \/ StrengthTimeoutAnyTime
    \/ ConfirmTimeoutAnyTime
    \/ ValidateFormCall

SpecFields == InitFields /\ [][NextFields]_vars

---------------------------------------------------------------------------
(* SpecRules: one field holds any string of a bounded set, and one input   *)
(* is left (blur), which applies validateField to it.                      *)

\* the strings of at most n characters of an alphabet
Strings(alphabet, n) == UNION {[1..k -> alphabet] : k \in 0..n}

Probe(id) ==
    CASE id = "signUpName" -> Strings({"a", " "}, MaxLen)
      [] id = "signUpUsername" -> Strings({"a", "9", "_", " ", "-"}, MaxLen)
      [] id = "signUpEmail" -> Strings({"a", "@", ".", " "}, MaxLen + 1)
      [] id \in {"signUpPassword", "signUpConfirmPassword"} ->
            Strings({"a", " "}, MaxLen + 3)

\* what signUpPassword holds while signUpConfirmPassword is probed
ProbePasswords ==
    {<<>>, <<"a", "a", "a", "a", "a", "a">>, <<" ", " ", " ", " ", " ", " ">>}

InitRules ==
    /\ \E id \in SignUpIds : \E v \in Probe(id) : \E pw \in ProbePasswords :
           value = [f \in Fields |->
                       IF f = id THEN v
                       ELSE IF f = "signUpPassword" /\ id = "signUpConfirmPassword"
                            THEN pw
                            ELSE <<>>]
    /\ cls = [id \in Fields |-> {}]
    /\ errText = [id \in Fields |-> ""]
    /\ strengthTimer = {}
    /\ confirmTimer = {}
    /\ meter = [visible |-> FALSE, strength |-> ""]
    /\ InitLimiters
    /\ InitPage
    /\ now = LoadTime
    /\ ret = NoRet

NextRules ==
    \E id \in Fields : ret = NoRet /\ Blur(id) /\ UNCHANGED <<now, limiterVars, pageVars>>

SpecRules == InitRules /\ [][NextRules]_vars

---------------------------------------------------------------------------
(* Spec: the two forms, filled in, are submitted at any times; the timeouts *)
(* of simulateFormSubmission, of the toasts and of the panel switch run    *)
(* when they are due.                                                      *)

MaxTime == LoadTime + Horizon

Secret == <<"s", "e", "c", "r", "e", "t">>

Init ==
    /\ \E signInPassword \in {Secret, <<"a", "b", "c">>} :
       \E confirm \in {Secret, <<"s", "e", "c", "r", "e", "T">>} :
           value = [signInEmail |-> <<"a", "@", "x", ".", "c">>,
                    signInPassword |-> signInPassword,
                    signUpName |-> <<"A", "l">>,
                    signUpUsername |-> <<"a", "l", "_", "9">>,
                    signUpEmail |-> <<"a", "@", "x", ".", "c">>,
                    signUpPassword |-> Secret,
                    signUpConfirmPassword |-> confirm]
    /\ cls = [id \in Fields |-> {}]
    /\ errText = [id \in Fields |-> ""]
    /\ strengthTimer = {}
    /\ confirmTimer = {}
    /\ meter = [visible |-> FALSE, strength |-> ""]
    /\ InitLimiters
    /\ InitPage
    /\ now = LoadTime
    /\ ret = NoRet

\* the handler returns at the rate-limit check: Date.now() is read again,
\* d ms later, by getRemainingTime()
SubmitRejected(form, l) ==
    \E d \in 0..MaxSkew :
        LET remaining == CeilSeconds(GetRemainingTime(lastCall[l], now + d)) IN
        /\ now' = now + d
        /\ toasts' = ShowToast(toasts, WaitMessage(remaining), "error", now + d)
        /\ last' = [last EXCEPT ![form] =
                       [outcome |-> "rejected", steps |-> <<"rateLimit", "notifyError">>,
                        csrf |-> 0, resolved |-> FALSE]]
        /\ UNCHANGED <<cls, errText, token, pending, button>>

\* the handler returns because validateForm, which left the page as r, failed
SubmitInvalid(form, r) ==
    /\ cls' = r.cls
    /\ errText' = r.errText
    /\ toasts' = ShowToast(toasts, "Please fix the errors above", "error", now)
    /\ last' = [last EXCEPT ![form] =
                   [outcome |-> "invalid",
                    steps |-> <<"rateLimit", "validate", "notifyError">>,
                    csrf |-> 0, resolved |-> FALSE]]
    /\ UNCHANGED <<now, token, pending, button>>

\* the handler goes on to its await: the token is attached and
\* simulateFormSubmission sets the button busy and its timeout; checked
\* records what the rememberMe checkbox shows at that moment
SubmitAccepted(form, r) ==
    /\ cls' = r.cls
    /\ errText' = r.errText
    /\ token' = GetToken(token)
    /\ button' = [button EXCEPT ![form] = Busy]
    /\ pending' = pending \cup
           {[form |-> form, due |-> now + SubmissionLatencyMs,
             csrf |-> GetToken(token), steps |-> StepsToAwait,
             checked |-> rememberMe]}
    /\ UNCHANGED <<now, toasts, last>>

\* the "submit" listener of a form, up to its return or its await
Submit(form) ==
    LET l == RateLimiterOf(form)
        c == CanProceed(lastCall[l], now)
        r == ValidateForm(Ui, value, FormFields(form))
    IN /\ now <= MaxTime
       /\ Len(toasts) + Cardinality(pending) < MaxToasts
       /\ lastCall' = [lastCall EXCEPT ![l] = c.lastCall]
       /\ isLimited' = [isLimited EXCEPT ![l] = c.isLimited]
       /\ IF ~c.result THEN SubmitRejected(form, l)
          ELSE IF ~r.ok THEN SubmitInvalid(form, r)
          ELSE SubmitAccepted(form, r)
       /\ UNCHANGED <<value, strengthTimer, confirmTimer, meter, container,
                      switchTimers, rememberMe, storage, theme, ret>>

\* the timeout of simulateFormSubmission for the run p, and the rest of the
\* submit handler, which the resolved promise resumes before any other event
SubmissionTimeout(p) ==
    /\ p \in pending
    /\ now >= p.due
    /\ pending' = pending \ {p}
    /\ button' = [button EXCEPT ![p.form] = Idle]
    /\ token' = GenerateToken(token)
    /\ storage' = IF p.form = "signIn"
                  THEN [storage EXCEPT !["rememberMe"] =
                            IF rememberMe THEN {"true"} ELSE {}]
                  ELSE storage
    /\ toasts' = ShowToast(toasts, SuccessMessage(p.form), "success", now)
    /\ switchTimers' = IF p.form = "signUp"
                       THEN switchTimers \cup {now + SwitchDelayMs}
                       ELSE switchTimers
    /\ last' = [last EXCEPT ![p.form] =
                   [outcome |-> "completed",
                    steps |-> p.steps \o StepsAfterWait(p.form),
                    csrf |-> p.csrf, resolved |-> TRUE]]
    /\ UNCHANGED <<fieldVars, now, limiterVars, container, rememberMe, theme, ret>>

\* a timeout of the i-th toast: the first hides it, the second removes it
ToastTimeout(i) ==
    /\ i \in 1..Len(toasts)
    /\ now >= toasts[i].due
    /\ toasts' = IF ~toasts[i].hide
                 THEN [toasts EXCEPT ![i] =
                          [@ EXCEPT !.hide = TRUE, !.due = now + ToastExitMs]]
                 ELSE RemoveAt(toasts, i)
    /\ UNCHANGED <<fieldVars, now, limiterVars, token, pending, button, last,
                   container, switchTimers, rememberMe, storage, theme, ret>>

\* a variant that toggles the class
ClassListToggleActive(active) == ~active

\* container.classList.remove("active")
ClassListRemoveActive(active) == FALSE

\* the timeout set after a successful registration
SwitchTimeout(t) ==
    /\ t \in switchTimers
    /\ now >= t
    /\ switchTimers' = switchTimers \ {t}
    /\ container' = ClassListRemoveActive(container)
    /\ UNCHANGED <<fieldVars, now, limiterVars, token, pending, button, last,
                   toasts, rememberMe, storage, theme>>

\* the "click" listeners of the register and login buttons
PanelClick(active) ==
    /\ now <= MaxTime
    /\ container' = active
    /\ UNCHANGED <<fieldVars, now, limiterVars, token, pending, button, last,
                   toasts, switchTimers, rememberMe, storage, theme, ret>>

\* the user checks or unchecks the rememberMe checkbox
RememberMeClick ==
    /\ now <= MaxTime
    /\ rememberMe' = ~rememberMe
    /\ UNCHANGED <<fieldVars, now, limiterVars, token, pending, button, last,
                   toasts, container, switchTimers, storage, theme, ret>>

---------------------------------------------------------------------------
(* Time *)

\* the grid on which idle time is sampled
Step == 1000

Min(S) == CHOOSE x \in S : \A y \in S : x <= y

\* when the pending timeouts are due
Deadlines ==
    {p.due : p \in pending} \cup {toasts[i].due : i \in 1..Len(toasts)}
        \cup switchTimers
        \cup {t.due : t \in strengthTimer} \cup {t.due : t \in confirmTimer}

\* the instants at which a rate limiter's answer changes: the end of the
\* cooldown, and the ms before
LimiterMarks ==
    UNION {{lastCall[l] + IntervalMs - 1, lastCall[l] + IntervalMs}
           : l \in RateLimiters}

NextGrid(t) == LoadTime + (((t - LoadTime) \div Step) + 1) * Step

\* time passes, up to the next instant of interest; a timeout that is due
\* runs before time passes on
Tick ==
    /\ \A d \in Deadlines : d > now
    /\ now <= MaxTime \/ Deadlines # {}
    /\ now' = Min({t \in Deadlines \cup LimiterMarks \cup {NextGrid(now)} : t > now})
    /\ UNCHANGED <<fieldVars, limiterVars, pageVars, ret>>

Next ==
    \/ Tick
    \/ \E form \in Forms : Submit(form)
    \/ \E p \in pending : SubmissionTimeout(p)
    \/ \E i \in 1..Len(toasts) : ToastTimeout(i)
    \/ \E t \in switchTimers : SwitchTimeout(t) /\ UNCHANGED ret

Spec == Init /\ [][Next]_vars

\* a timeout that is due runs, and time passes
TimeoutRuns ==
    \/ \E p \in pending : SubmissionTimeout(p)
    \/ \E i \in 1..Len(toasts) : ToastTimeout(i)
    \/ \E t \in switchTimers : SwitchTimeout(t) /\ UNCHANGED ret

FairSpec == Spec /\ WF_vars(Tick) /\ WF_vars(TimeoutRuns)

---------------------------------------------------------------------------
(* SpecLimiter: the methods of the two rate limiters called in any order,  *)
(* at any times.                                                           *)

InitLimiter ==
    /\ InitFieldsEmpty
    /\ InitLimiters
    /\ InitPage
    /\ now = LoadTime
    /\ ret = NoRet

CanProceedCall(l) ==
    LET c == CanProceed(lastCall[l], now) IN
    /\ now <= MaxTime
    /\ lastCall' = [lastCall EXCEPT ![l] = c.lastCall]
    /\ isLimited' = [isLimited EXCEPT ![l] = c.isLimited]
    /\ ret' = [op |-> "canProceed", arg |-> l, result |-> c.result, at |-> now]
    /\ UNCHANGED <<fieldVars, now, pageVars>>

GetRemainingTimeCall(l) ==
    /\ now <= MaxTime
    /\ ret' = [op |-> "getRemainingTime", arg |-> l,
               result |-> GetRemainingTime(lastCall[l], now), at |-> now]
    /\ UNCHANGED <<fieldVars, now, limiterVars, pageVars>>

NextLimiter ==
    \/ Tick
    \/ \E l \in RateLimiters : CanProceedCall(l)
    \/ \E l \in RateLimiters : GetRemainingTimeCall(l)

SpecLimiter == InitLimiter /\ [][NextLimiter]_vars

---------------------------------------------------------------------------
(* SpecTheme: the theme button is clicked and the page is reloaded, at any *)
(* times; localStorage outlives the page.                                  *)

\* the page is not reloaded once MaxTokens tokens have been generated
MaxTokens == 4

\* a variant that ignores what is stored
InitThemeDefault(store) == "light"

\* the data-theme initTheme() sets, given what localStorage holds
InitTheme(store) ==
    IF store["theme"] \in {{}, {""}} THEN "light"
    ELSE CHOOSE t \in store["theme"] : TRUE

\* the checkbox after loadRememberMe(), unchecked in the document
LoadRememberMe(store) == store["rememberMe"] = {"true"}

\* the "click" listener of the theme button
ToggleTheme ==
    LET newTheme == IF theme = "dark" THEN "light" ELSE "dark" IN
    /\ now <= MaxTime
    /\ Len(toasts) + Cardinality(pending) < MaxToasts
    /\ theme' = newTheme
    /\ storage' = [storage EXCEPT !["theme"] = {newTheme}]
    /\ toasts' = ShowToast(toasts,
                           (IF newTheme = "dark" THEN "Dark" ELSE "Light")
                               \o " mode enabled",
                           "info", now)
    /\ ret' = [op |-> "toggleTheme", arg |-> "", result |-> FALSE, was |-> {theme}]
    /\ UNCHANGED <<fieldVars, now, limiterVars, token, pending, button, last,
                   container, switchTimers, rememberMe>>

\* the page is loaded again: the document and the script's variables are
\* new, the timeouts of the old page are gone, localStorage is kept
Reload ==
    /\ now <= MaxTime
    /\ token < MaxTokens
    /\ value' = [id \in Fields |-> <<>>]
    /\ cls' = [id \in Fields |-> {}]
    /\ errText' = [id \in Fields |-> ""]
    /\ strengthTimer' = {}
    /\ confirmTimer' = {}
    /\ meter' = [visible |-> FALSE, strength |-> ""]
    /\ lastCall' = [l \in RateLimiters |-> 0]
    /\ isLimited' = [l \in RateLimiters |-> FALSE]
    /\ token' = GenerateToken(token)
    /\ pending' = {}
    /\ button' = [f \in Forms |-> Idle]
    /\ last' = [f \in Forms |-> NoRun]
    /\ toasts' = <<>>
    /\ container' = FALSE
    /\ switchTimers' = {}
    /\ rememberMe' = LoadRememberMe(storage)
    /\ theme' = InitTheme(storage)
    /\ ret' = [op |-> "reload", arg |-> "", result |-> FALSE, was |-> {theme}]
    /\ UNCHANGED <<now, storage>>

NextTheme ==
    \/ Tick
    \/ ToggleTheme
    \/ Reload
    \/ \E i \in 1..Len(toasts) : ToastTimeout(i)

SpecTheme == InitLimiter /\ [][NextTheme]_vars

---------------------------------------------------------------------------
(* SpecSignIn: the sign-in form, filled in, is submitted at any times; the *)
(* user retypes the password and clicks the rememberMe checkbox at any     *)
(* times, also while a submission is pending.                              *)

\* the passwords typed into signInPassword: one that passes, one too short
TypedPasswords == {Secret, <<"a", "b", "c">>}

InitSignIn ==
    /\ \E signInPassword \in TypedPasswords :
           value = [id \in Fields |->
                       CASE id = "signInEmail" -> <<"a", "@", "x", ".", "c">>
                         [] id = "signInPassword" -> signInPassword
                         [] OTHER -> <<>>]
    /\ cls = [id \in Fields |-> {}]
    /\ errText = [id \in Fields |-> ""]
    /\ strengthTimer = {}
    /\ confirmTimer = {}
    /\ meter = [visible |-> FALSE, strength |-> ""]
    /\ InitLimiters
    /\ InitPage
    /\ now = LoadTime
    /\ ret = NoRet

\* the user changes what signInPassword holds
PasswordTyped ==
    \E v \in TypedPasswords :
        /\ now <= MaxTime
        /\ v # value["signInPassword"]
        /\ Input("signInPassword", v)
        /\ UNCHANGED <<now, limiterVars, pageVars, ret>>

NextSignIn ==
    \/ Tick
    \/ Submit("signIn")
    \/ PasswordTyped
    \/ RememberMeClick
    \/ \E p \in pending : SubmissionTimeout(p)
    \/ \E i \in 1..Len(toasts) : ToastTimeout(i)

SpecSignIn == InitSignIn /\ [][NextSignIn]_vars

---------------------------------------------------------------------------
(* SpecSignUp: the sign-up form, filled in, is submitted at any times, and *)
(* the register and login buttons are clicked at any times.                *)

InitSignUp ==
    /\ \E confirm \in {Secret, <<"s", "e", "c", "r", "e", "T">>} :
           value = [id \in Fields |->
                       CASE id = "signUpName" -> <<"A", "l">>
                         [] id = "signUpUsername" -> <<"a", "l", "_", "9">>
                         [] id = "signUpEmail" -> <<"a", "@", "x", ".", "c">>
                         [] id = "signUpPassword" -> Secret
                         [] id = "signUpConfirmPassword" -> confirm
                         [] OTHER -> <<>>]
    /\ cls = [id \in Fields |-> {}]
    /\ errText = [id \in Fields |-> ""]
    /\ strengthTimer = {}
    /\ confirmTimer = {}
    /\ meter = [visible |-> FALSE, strength |-> ""]
    /\ InitLimiters
    /\ InitPage
    /\ now = LoadTime
    /\ ret = NoRet

\* a click on the register (active) or the login button
PanelClickSeen ==
    \E active \in BOOLEAN : PanelClick(active) /\ active # container

\* the panel switch runs; was records the class the container had
SwitchTimeoutSeen ==
    \E t \in switchTimers :
        /\ SwitchTimeout(t)
        /\ ret' = [op |-> "switchTimeout", arg |-> "", result |-> FALSE,
                   was |-> IF container THEN {"active"} ELSE {}]

NextSignUp ==
    \/ Tick
    \/ Submit("signUp")
    \/ PanelClickSeen
    \/ \E p \in pending : SubmissionTimeout(p)
    \/ \E i \in 1..Len(toasts) : ToastTimeout(i)
    \/ SwitchTimeoutSeen

SpecSignUp == InitSignUp /\ [][NextSignUp]_vars

TimeoutRunsSignUp ==
    \/ \E p \in pending : SubmissionTimeout(p)
    \/ \E i \in 1..Len(toasts) : ToastTimeout(i)
    \/ SwitchTimeoutSeen

FairSpecSignUp == SpecSignUp /\ WF_vars(Tick) /\ WF_vars(TimeoutRunsSignUp)

---------------------------------------------------------------------------
(* SpecDebounce: the user types into the two password inputs of the        *)
(* sign-up form at any times; the debounce timeouts run when they are due. *)

\* an input event; restarted records whether the call of the debounced
\* function found a timeout pending
TypedAt ==
    \E id \in Fields : \E v \in Typed(id) :
        /\ now <= MaxTime
        /\ v # value[id]
        /\ Input(id, v)
        /\ ret' = [op |-> "input", arg |-> id, result |-> FALSE, was |-> cls[id],
                   restarted |-> IF id = "signUpPassword" THEN strengthTimer # {}
                                 ELSE confirmTimer # {}]
        /\ UNCHANGED <<now, limiterVars, pageVars>>

\* the timeout of debouncedPasswordStrength, due
StrengthTimeout ==
    \E t \in strengthTimer :
        /\ now >= t.due
        /\ StrengthCheck(t)
        /\ ret' = [op |-> "callback", arg |-> "signUpPassword", result |-> FALSE,
                   was |-> {},
                   restarted |-> /\ ret.op = "input"
                                 /\ ret.arg = "signUpPassword"
                                 /\ ret.restarted]
        /\ UNCHANGED <<now, limiterVars, pageVars>>

\* the timeout of the debounced confirm-password check, due
ConfirmTimeout ==
    \E t \in confirmTimer :
        /\ now >= t.due
        /\ ConfirmCheck(t)
        /\ ret' = [op |-> "callback", arg |-> "signUpConfirmPassword",
                   result |-> FALSE, was |-> cls["signUpConfirmPassword"],
                   restarted |-> /\ ret.op = "input"
                                 /\ ret.arg = "signUpConfirmPassword"
                                 /\ ret.restarted]
        /\ UNCHANGED <<now, limiterVars, pageVars>>

NextDebounce ==
    \/ Tick
    \/ TypedAt
    \/ StrengthTimeout
    \/ ConfirmTimeout

SpecDebounce == InitFields /\ [][NextDebounce]_vars

FairSpecDebounce ==
    SpecDebounce /\ WF_vars(Tick) /\ WF_vars(StrengthTimeout \/ ConfirmTimeout)

---------------------------------------------------------------------------
(* Properties of the validators, validateField and validateForm *)

\* what the rule of the i-th field of the sign-up list says of the value
\* the field holds now
RuleError(i) ==
    Validators(SignUpFields[i].validator, value[SignUpFields[i].id], value)

\* C7: right after validateForm ran on the sign-up field list, every field
\* of the list carries the verdict of its own rule on its current value (the
\* rule's message, the error mark exactly when the rule fails, no success
\* mark on a failing field), also the fields that follow a failing one, and
\* validateForm returned true exactly when every rule passed.
ValidateFormEvaluatesEveryField ==
    ret.op = "validateForm" =>
        /\ \A i \in 1..Len(SignUpFields) :
               LET id == SignUpFields[i].id IN
               /\ errText[id] = RuleError(i)
               /\ ("error" \in cls[id]) <=> (RuleError(i) # "")
               /\ ("success" \in cls[id]) => (RuleError(i) = "")
        /\ ret.result <=> (\A i \in 1..Len(SignUpFields) : RuleError(i) = "")

\* C7 witness: validateForm returned false with the first field of the list
\* failing and the last field, evaluated after it, marked as failing too.
ValidateFormMarkedTwoFailures ==
    /\ ret.op = "validateForm"
    /\ ~ret.result
    /\ "error" \in cls["signUpName"]
    /\ errText["signUpConfirmPassword"] = "Passwords do not match"
    /\ "success" \in cls["signUpPassword"]

\* C8: whenever validateField has just run on signUpConfirmPassword (on
\* blur, or as part of validateForm), it passed exactly when the value is
\* not empty and equals what signUpPassword holds now.
ConfirmPasswordComparesLiveValue ==
    /\ (ret.op = "validateField" /\ ret.arg = "signUpConfirmPassword") =>
           (ret.result <=>
                /\ value["signUpConfirmPassword"] # <<>>
                /\ value["signUpConfirmPassword"] = value["signUpPassword"])
    /\ ((ret.op = "validateField" /\ ret.arg = "signUpConfirmPassword")
            \/ ret.op = "validateForm") =>
           ((errText["signUpConfirmPassword"] = "") <=>
                /\ value["signUpConfirmPassword"] # <<>>
                /\ value["signUpConfirmPassword"] = value["signUpPassword"])

\* C8 witness: signUpConfirmPassword, which carried the success mark of an
\* earlier validation, fails with "Passwords do not match" on a value that
\* is not empty, the password input now holding something else.
ConfirmPasswordFailsAfterPasswordChange ==
    /\ ret.op = "validateField"
    /\ ret.arg = "signUpConfirmPassword"
    /\ ~ret.result
    /\ "success" \in ret.was
    /\ value["signUpConfirmPassword"] = Secret
    /\ value["signUpPassword"] # Secret
    /\ errText["signUpConfirmPassword"] = "Passwords do not match"

\* C9: validateField on the username passes exactly when the trimmed value
\* has at least 3 characters and every character of the value is a letter,
\* a digit or an underscore.
UsernameRulePassesIff ==
    (ret.op = "validateField" /\ ret.arg = "signUpUsername") =>
        LET v == value["signUpUsername"] IN
        ret.result <=>
            /\ Len(Trim(v)) >= 3
            /\ \A i \in 1..Len(v) : v[i] \in WordChar

\* C9 witness: a username of 3 word characters after a leading blank fails.
UsernameWithLeadingBlankFails ==
    /\ ret.op = "validateField"
    /\ ret.arg = "signUpUsername"
    /\ ~ret.result
    /\ value["signUpUsername"] = <<" ", "a", "9", "_">>

\* C10: after validateField ran on a field, a value that is not empty and
\* passes is marked success, a value that fails is marked error with the
\* rule's message, and the field is left without mark only when it is empty.
ValidateFieldMarksEveryNonEmptyValue ==
    ret.op = "validateField" =>
        LET id == ret.arg
            error == Validators(BlurValidatorKey(id), value[id], value)
        IN /\ (value[id] # <<>> /\ error = "") => cls[id] = {"success"}
           /\ error # "" => (cls[id] = {"error"} /\ errText[id] = error)
           /\ cls[id] = {} => value[id] = <<>>

---------------------------------------------------------------------------
(* Properties of the rate limiters *)

\* C2 as claimed: canProceed() returns true and sets lastCall to the time it
\* read exactly when at least IntervalMs have elapsed since lastCall, and
\* otherwise returns false and leaves the limiter's variables as they were.
CanProceedRejectionChangesNothing ==
    [][\A l \in RateLimiters :
           CanProceedCall(l) =>
               IF now - lastCall[l] >= IntervalMs
               THEN ret'.result /\ lastCall'[l] = now
               ELSE /\ ~ret'.result
                    /\ lastCall'[l] = lastCall[l]
                    /\ isLimited'[l] = isLimited[l]]_vars

\* C2 as amended: a rejecting canProceed() leaves lastCall as it was and
\* writes only isLimited, which it sets.
CanProceedRejectionKeepsLastCall ==
    [][\A l \in RateLimiters :
           CanProceedCall(l) =>
               IF now - lastCall[l] >= IntervalMs
               THEN ret'.result /\ lastCall'[l] = now /\ ~isLimited'[l]
               ELSE /\ ~ret'.result
                    /\ lastCall'[l] = lastCall[l]
                    /\ isLimited'[l]]_vars

\* C2 witness: a call has been rejected some time after the accepted one,
\* whose time lastCall still holds.
CanProceedRejectedInCooldown ==
    /\ ret.op = "canProceed"
    /\ ~ret.result
    /\ isLimited[ret.arg]
    /\ lastCall[ret.arg] >= LoadTime
    /\ ret.at = lastCall[ret.arg] + IntervalMs - 1

---------------------------------------------------------------------------
(* Properties of the submit handlers *)

OtherForm(form) == IF form = "signIn" THEN "signUp" ELSE "signIn"

\* C4: a run of one form's submit handler, accepted or rejected, leaves the
\* variables of the other form's rate limiter as they were, and with them
\* the answer the other form's next attempt gets.
LimitersShareNoState ==
    [][\A form \in Forms :
           Submit(form) =>
               LET other == RateLimiterOf(OtherForm(form)) IN
               /\ lastCall'[other] = lastCall[other]
               /\ isLimited'[other] = isLimited[other]
               /\ CanProceed(lastCall'[other], now').result
                      = CanProceed(lastCall[other], now').result]_vars

\* C4 witness: sign-up was accepted while sign-in, accepted less than a
\* cooldown earlier and rejected since, was still limited.
SignUpAcceptedWhileSignInLimited ==
    /\ isLimited["signInRateLimiter"]
    /\ ~isLimited["signUpRateLimiter"]
    /\ lastCall["signInRateLimiter"] >= LoadTime
    /\ lastCall["signUpRateLimiter"] > lastCall["signInRateLimiter"]
    /\ lastCall["signUpRateLimiter"] < lastCall["signInRateLimiter"] + IntervalMs
    /\ now = lastCall["signUpRateLimiter"]

\* C5: a submit within the cooldown of an accepted attempt adds one toast,
\* of type error, saying to wait a whole number of seconds that is at least
\* 1, and changes neither the fields' marks, nor the button, nor the
\* pending submissions, nor the token, nor localStorage.
RejectedSubmitOnlyNotifies ==
    [][\A form \in Forms :
           (Submit(form) /\ now < lastCall[RateLimiterOf(form)] + IntervalMs) =>
               /\ Len(toasts') = Len(toasts) + 1
               /\ SubSeq(toasts', 1, Len(toasts)) = toasts
               /\ toasts'[Len(toasts')].type = "error"
               /\ \E k \in 1..CeilSeconds(IntervalMs) :
                      toasts'[Len(toasts')].message = WaitMessage(k)
               /\ UNCHANGED <<cls, errText, button, pending, token, storage>>]_vars

\* the steps C1 names, in the order it gives them
ClaimedOrder ==
    <<"rateLimit", "validate", "busyEnter", "wait", "busyExit", "refreshToken",
      "notify">>

Claimed(step) == \E i \in 1..Len(ClaimedOrder) : ClaimedOrder[i] = step

IsPrefix(a, b) == Len(a) <= Len(b) /\ SubSeq(b, 1, Len(a)) = a

BusyExactlyWhilePending ==
    /\ [](\A form \in Forms :
              /\ (\E p \in pending : p.form = form) =>
                     button[form] = [loading |-> TRUE, disabled |-> TRUE]
              /\ (~\E p \in pending : p.form = form) =>
                     button[form] = [loading |-> FALSE, disabled |-> FALSE])
    /\ [][\A form \in Forms :
              (button[form].loading /\ button'[form] # button[form]) =>
                  /\ \E p \in pending :
                         p.form = form /\ now >= p.due /\ pending' = pending \ {p}
                  /\ last'[form].outcome = "completed"
                  /\ last'[form].resolved
                  /\ Len(SelectSeq(last'[form].steps, LAMBDA x : x = "busyExit")) = 1]_vars
    /\ \A form \in Forms :
           (button[form].loading \/ button[form].disabled)
               ~> (~button[form].loading /\ ~button[form].disabled)

\* C6 witness: the sign-in button is busy at the very end of the 1500 ms,
\* after a second submit of the form has been rejected meanwhile.
BusyUntilTheTimeout ==
    /\ \E p \in pending : p.form = "signIn" /\ now = p.due
    /\ button["signIn"] = [loading |-> TRUE, disabled |-> TRUE]
    /\ isLimited["signInRateLimiter"]

---------------------------------------------------------------------------
(* Properties of the marks the fields show *)

\* C11: the error or success mark a sign-up field shows is the verdict of
\* the field's rule on the value the field holds now: a field marked success
\* holds a value that passes, a field marked error a value that fails, with
\* the rule's message shown.  (signUpConfirmPassword, whose rule reads a
\* second input as well, is left out.)
MarksComeFromCurrentValue ==
    \A i \in 1..Len(SignUpFields) :
        LET id == SignUpFields[i].id IN
        SignUpFields[i].validator # "confirmPassword" =>
            /\ "success" \in cls[id] => (RuleError(i) = "" /\ value[id] # <<>>)
            /\ "error" \in cls[id] => (RuleError(i) # "" /\ errText[id] = RuleError(i))

\* C20: no input group carries the classes "error" and "success" together.
NoFieldMarkedErrorAndSuccess ==
    \A id \in Fields : ~({"error", "success"} \subseteq cls[id])

---------------------------------------------------------------------------
(* Properties of the toasts *)

\* C12: a toast stays as it was shown until ToastVisibleMs after showToast,
\* is then in the hide state until ToastExitMs later, and is then removed
\* (a timeout runs no earlier than it is due, and after the handlers of the
\* events that came before it);
\* a step that shows a toast leaves the toasts already there as they are,
\* a step removes at most one toast, a toast in the hide state whose
\* second timeout is due, and a toast changes only by entering the hide
\* state when its first timeout is due; and all toasts are eventually
\* removed.
ToastsLiveTheirTimeAndGo ==
    /\ [](\A i \in 1..Len(toasts) :
              /\ ~toasts[i].hide => toasts[i].due = toasts[i].shown + ToastVisibleMs
              /\ toasts[i].hide =>
                     toasts[i].due >= toasts[i].shown + ToastVisibleMs + ToastExitMs)
    /\ [][/\ Len(toasts') > Len(toasts) =>
               /\ Len(toasts') = Len(toasts) + 1
               /\ SubSeq(toasts', 1, Len(toasts)) = toasts
               /\ toasts'[Len(toasts')].shown = now'
               /\ ~toasts'[Len(toasts')].hide
          /\ Len(toasts') < Len(toasts) =>
               \E i \in 1..Len(toasts) :
                   /\ toasts[i].hide
                   /\ now >= toasts[i].due
                   /\ toasts' = RemoveAt(toasts, i)
          /\ (Len(toasts') = Len(toasts) /\ toasts' # toasts) =>
               \E i \in 1..Len(toasts) :
                   /\ ~toasts[i].hide
                   /\ now >= toasts[i].due
                   /\ toasts' = [toasts EXCEPT ![i] =
                                    [@ EXCEPT !.hide = TRUE, !.due = now + ToastExitMs]]]_vars
    /\ <>[](toasts = <<>>)

\* C12 witness: three toasts are displayed together, the oldest in the
\* hide state and the youngest shown after the oldest began to hide.
ThreeToastsOneHiding ==
    /\ Len(toasts) = 3
    /\ toasts[1].hide
    /\ ~toasts[2].hide
    /\ toasts[3].shown >= toasts[1].shown + ToastVisibleMs

---------------------------------------------------------------------------
(* Properties of the token *)

\* C13: a submit goes on to its await exactly when the limiter accepts it
\* and validateForm passes, and then attaches the token held at that moment
\* and leaves it as it is; a submit that is rejected or invalid attaches
\* nothing and leaves the token as it is; and the token changes exactly in
\* the steps that complete a pending submission, each time to a value never
\* held before.
TokenAttachedThenRefreshedOnce ==
    [][/\ \A form \in Forms :
              Submit(form) =>
                  LET passes ==
                          /\ now - lastCall[RateLimiterOf(form)] >= IntervalMs
                          /\ ValidateForm(Ui, value, FormFields(form)).ok
                  IN /\ token' = token
                     /\ passes =>
                            \E p \in pending' \ pending :
                                /\ pending' = pending \cup {p}
                                /\ p.form = form
                                /\ p.csrf = token
                                /\ p.csrf # 0
                                /\ \E i \in 1..Len(p.steps) : p.steps[i] = "attachToken"
                     /\ ~passes =>
                            /\ pending' = pending
                            /\ last'[form].outcome \in {"rejected", "invalid"}
                            /\ last'[form].csrf = 0
                            /\ \A i \in 1..Len(last'[form].steps) :
                                   last'[form].steps[i] # "attachToken"
       /\ (token' # token) <=> (\E p \in pending : pending' = pending \ {p})
       /\ token' # token => token' > token]_vars

\* C13 witness: sign-in completed with the token generated on load, and
\* sign-up, submitted later, completed with the token that replaced it.
SecondSubmissionAttachedNewToken ==
    /\ last["signIn"].outcome = "completed"
    /\ last["signIn"].csrf = 1
    /\ last["signUp"].outcome = "completed"
    /\ last["signUp"].csrf = 2
    /\ token = 3

---------------------------------------------------------------------------
(* Properties of the preferences *)

\* C14: the theme displayed is "light" or "dark"; the theme stored, if any,
\* is the theme displayed, and nothing is stored only while "light" is
\* displayed; a toggle changes the theme displayed and stores it; and a
\* reload displays the theme stored, "light" if there is none, and leaves
\* localStorage as it is.
ThemeRoundTrip ==
    /\ [](/\ theme \in {"light", "dark"}
          /\ storage["theme"] \in {{}, {theme}}
          /\ storage["theme"] = {} => theme = "light")
    /\ [][/\ ToggleTheme =>
               /\ theme' # theme
               /\ storage'["theme"] = {theme'}
          /\ Reload =>
               /\ storage' = storage
               /\ theme' = IF storage["theme"] = {} THEN "light"
                           ELSE CHOOSE t \in storage["theme"] : TRUE]_vars

\* C14 witness: the page has been reloaded while "dark" was displayed and
\* stored, and displays "dark".
DarkAfterReload ==
    /\ ret.op = "reload"
    /\ ret.was = {"dark"}
    /\ storage["theme"] = {"dark"}
    /\ theme = "dark"

\* C15: localStorage's rememberMe is written only in the step that
\* completes a sign-in submission, and holds "true" after it if the checkbox
\* was checked when the form was submitted and nothing otherwise.
RememberMeAsAtSubmitTime ==
    [][/\ storage'["rememberMe"] # storage["rememberMe"] =>
               \E p \in pending : p.form = "signIn" /\ pending' = pending \ {p}
       /\ \A p \in pending :
              (p.form = "signIn" /\ pending' = pending \ {p}) =>
                  storage'["rememberMe"] = IF p.checked THEN {"true"} ELSE {}]_vars

---------------------------------------------------------------------------
(* Properties of the cooldown as the submit handlers use it *)

\* C19: a submit that the limiter accepts and validateForm fails sets the
\* limiter's lastCall to the time of the submit; and every submit of a form
\* less than IntervalMs after its limiter's lastCall is rejected: it leaves
\* the marks and messages of the fields as they are, whatever the fields
\* hold by then, and starts no submission.
InvalidAttemptStartsCooldown ==
    [][\A form \in Forms :
           Submit(form) =>
               LET l == RateLimiterOf(form) IN
               /\ last'[form].outcome = "invalid" =>
                      (lastCall'[l] = now /\ ~isLimited'[l])
               /\ now < lastCall[l] + IntervalMs =>
                      /\ last'[form].outcome = "rejected"
                      /\ last'[form].steps = <<"rateLimit", "notifyError">>
                      /\ lastCall'[l] = lastCall[l]
                      /\ UNCHANGED <<cls, errText, pending, button, token>>]_vars

\* C19 witness: sign-in was submitted with a password too short, the
\* password was then retyped to one that passes, and the submit that
\* followed within the cooldown was rejected: the email still carries the
\* success mark of the first submit, the password no mark at all.
ValidResubmitRejected ==
    /\ last["signIn"].outcome = "rejected"
    /\ value["signInPassword"] = Secret
    /\ cls["signInEmail"] = {"success"}
    /\ cls["signInPassword"] = {}
    /\ lastCall["signInRateLimiter"] = LoadTime
    /\ isLimited["signInRateLimiter"]
    /\ pending = {}
    /\ token = 1

---------------------------------------------------------------------------
(* Properties of the registration *)

\* C16: a sign-up submit with five valid fields that the limiter accepts
\* sets the button busy and starts a submission; the step that completes it
\* sets the button idle, shows the success toast and sets the panel switch
\* SwitchDelayMs later; the switch runs when it is due and leaves the
\* sign-in panel shown, whatever was clicked meanwhile; and a switch that
\* is set eventually runs.
RegistrationSwitchesToSignIn ==
    /\ [][/\ (/\ Submit("signUp")
              /\ now - lastCall["signUpRateLimiter"] >= IntervalMs
              /\ \A i \in 1..Len(SignUpFields) : RuleError(i) = "") =>
                 /\ button'["signUp"] = [loading |-> TRUE, disabled |-> TRUE]
                 /\ \E p \in pending' \ pending :
                        p.form = "signUp" /\ p.due = now + SubmissionLatencyMs
          /\ \A p \in pending :
                 (p.form = "signUp" /\ pending' = pending \ {p}) =>
                     /\ now >= p.due
                     /\ button'["signUp"] = [loading |-> FALSE, disabled |-> FALSE]
                     /\ Len(toasts') = Len(toasts) + 1
                     /\ toasts'[Len(toasts')].type = "success"
                     /\ toasts'[Len(toasts')].message = "Account created successfully!"
                     /\ toasts'[Len(toasts')].shown = now
                     /\ switchTimers' = switchTimers \cup {now + SwitchDelayMs}
                     /\ now + SwitchDelayMs \notin switchTimers
          /\ switchTimers' # switchTimers =>
                 \/ \E p \in pending : p.form = "signUp" /\ pending' = pending \ {p}
                 \/ \E t \in switchTimers :
                        /\ now >= t
                        /\ switchTimers' = switchTimers \ {t}
                        /\ ~container']_vars
    /\ (switchTimers # {}) ~> (switchTimers = {} /\ ~container)

\* C16 witness: the panel switch has just run and shows the sign-in panel,
\* the sign-up panel having been shown, after a click on the register
\* button, when it ran.
SwitchedBackAfterRegisterClick ==
    /\ ret.op = "switchTimeout"
    /\ ret.was = {"active"}
    /\ ~container
    /\ last["signUp"].outcome = "completed"
    /\ switchTimers = {}

---------------------------------------------------------------------------
(* Properties of the debounced functions *)

\* C17: after every input event of signUpPassword (signUpConfirmPassword)
\* exactly one timeout of its debounced function is pending, due
\* StrengthDebounceMs (ConfirmDebounceMs) after the event and, for the
\* strength check, holding the value just typed; the wrapped callback runs
\* only as the pending timeout, no earlier than it is due, with the
\* arguments of the last call, and leaves no timeout pending; and a pending
\* timeout eventually runs.
DebounceRunsOncePerQuietPeriod ==
    /\ [](/\ Cardinality(strengthTimer) <= 1
          /\ Cardinality(confirmTimer) <= 1
          /\ \A t \in strengthTimer : t.args = value["signUpPassword"])
    /\ [][/\ value'["signUpPassword"] # value["signUpPassword"] =>
                 strengthTimer' = {[due |-> now + StrengthDebounceMs,
                                    args |-> value'["signUpPassword"]]}
          /\ value'["signUpConfirmPassword"] # value["signUpConfirmPassword"] =>
                 /\ Cardinality(confirmTimer') = 1
                 /\ \A t \in confirmTimer' : t.due = now + ConfirmDebounceMs
          /\ (strengthTimer' # strengthTimer
                  /\ value'["signUpPassword"] = value["signUpPassword"]) =>
                 /\ strengthTimer' = {}
                 /\ \A t \in strengthTimer : now >= t.due
                 /\ meter' = UpdatePasswordStrength(meter, value["signUpPassword"])
          /\ meter' # meter => (strengthTimer # {} /\ strengthTimer' = {})
          /\ (confirmTimer' # confirmTimer
                  /\ value'["signUpConfirmPassword"] = value["signUpConfirmPassword"]) =>
                 /\ confirmTimer' = {}
                 /\ \A t \in confirmTimer : now >= t.due
          /\ ("error" \in cls'["signUpConfirmPassword"]
                  /\ "error" \notin cls["signUpConfirmPassword"]) =>
                 (confirmTimer # {} /\ confirmTimer' = {})]_vars
    /\ (strengthTimer # {}) ~> (strengthTimer = {})
    /\ (confirmTimer # {}) ~> (confirmTimer = {})

\* C17 witness: the strength callback has just run, for a call that found
\* an earlier call's timeout pending and discarded it, and shows the
\* strength of the password typed last.
StrengthCallbackAfterRestart ==
    /\ ret.op = "callback"
    /\ ret.arg = "signUpPassword"
    /\ ret.restarted
    /\ value["signUpPassword"] = Secret
    /\ meter = [visible |-> TRUE, strength |-> "weak"]
    /\ strengthTimer = {}

---------------------------------------------------------------------------
(* Properties of the submit handlers under repeated submits *)

\* C18: no form has two submissions pending; and a submit of a form that
\* has a submission pending is rejected at the rate-limit check: it starts
\* no submission and leaves the button as it is.
AtMostOnePendingPerForm ==
    /\ [](\A form \in Forms :
              Cardinality({p \in pending : p.form = form}) <= 1)
    /\ [][\A form \in Forms :
              (Submit(form) /\ \E p \in pending : p.form = form) =>
                  /\ last'[form].outcome = "rejected"
                  /\ pending' = pending
                  /\ button' = button
                  /\ lastCall' = lastCall]_vars

\* C18 witness: sign-in has a submission pending, not yet due, and the
\* submit of sign-in that came last was rejected.
SubmitRejectedWhilePending ==
    /\ \E p \in pending : p.form = "signIn" /\ now < p.due
    /\ last["signIn"].outcome = "rejected"
    /\ isLimited["signInRateLimiter"]

\* C21: no two submissions that went on to their await attached the same
\* token: not two that are pending, not one that is pending and one that
\* completed, and not the runs of the two forms that completed last.
NoTokenAttachedTwice ==
    /\ \A p, q \in pending : p # q => p.csrf # q.csrf
    /\ \A p \in pending : \A form \in Forms :
           last[form].outcome = "completed" => last[form].csrf # p.csrf
    /\ (last["signIn"].outcome = "completed" /\ last["signUp"].outcome = "completed")
           => last["signIn"].csrf # last["signUp"].csrf

=============================================================================
